---- MODULE Spec2Model ----
(***************************************************************************)
(* LifeSaver emergency-response orchestrator: the Session Context, the     *)
(* Protocol Catalog and the three workflow operations of                   *)
(* LifeSaverOrchestrator (triage, next_instruction, generate_emt_report),  *)
(* with the four ADK runners as external collaborators whose replies are   *)
(* inputs.                                                                 *)
(*                                                                         *)
(* Python values decoded from JSON are tagged records [t, v]; Python None  *)
(* is the JSON null.  Plain texts are TLA+ strings.  The catalog texts are *)
(* the source's, with its three non-ASCII characters (en dash, em dash,    *)
(* typographic apostrophe) written as "-" and "'".                         *)
(***************************************************************************)
EXTENDS Integers, Sequences, FiniteSets, TLC

VARIABLES started, held, objects, lists, last, hist

vars == <<started, held, objects, lists, last, hist>>

------------------------------------------------------------------------------
(* Bounds of the model *)

\* calls made on one session under Spec (all collaborator replies)
MaxCalls == 3
\* calls made on one session under WalkSpec: a triage, the five
\* next_instruction calls that walk the longest protocol to its end and once
\* past it, or four of them and a second triage
MaxWalkCalls == 6
\* calls made on one session under DegradedSpec (degrading instructor and
\* calming collaborators)
MaxDegradedCalls == 5
\* calls made on one session in LookupSpec (triage calls next to direct
\* calls of the protocol lookup tool)
MaxLookupCalls == 2
\* calls made on each of the two sessions in PairSpec
MaxPairCalls == 2

------------------------------------------------------------------------------
(* Python / JSON values *)

None == [t |-> "null"]
JStr(s) == [t |-> "str", v |-> s]
JNum(n) == [t |-> "num", v |-> n]
JList(q) == [t |-> "list", v |-> q]
JDict(d) == [t |-> "dict", v |-> d]

\* bool(x) of a decoded value
Truthy(x) ==
    CASE x.t = "null" -> FALSE
      [] x.t = "str"  -> x.v # ""
      [] x.t = "num"  -> x.v # 0
      [] x.t = "list" -> Len(x.v) > 0
      [] x.t = "dict" -> DOMAIN x.v # {}

\* a or b
PyOr(a, b) == IF Truthy(a) THEN a ELSE b

\* d.get(k) of a dict
DictGet(d, k) == IF k \in DOMAIN d.v THEN d.v[k] ELSE None

\* lists and dicts cannot be dict keys
Hashable(x) == x.t \notin {"list", "dict"}

\* str(x) as an f-string formats it (only the values the model feeds it)
PyStr(x) ==
    CASE x.t = "str"  -> x.v
      [] x.t = "num"  -> ToString(x.v)
      [] x.t = "null" -> "None"

Min(a, b) == IF a <= b THEN a ELSE b

------------------------------------------------------------------------------
(* config.py *)

EMERGENCY_TYPES ==
    << "cardiac_arrest", "choking", "possible_stroke", "anaphylaxis",
       "unconscious_but_breathing" >>

------------------------------------------------------------------------------
(* tools/protocol.py *)

PROTOCOLS ==
    [ cardiac_arrest |->
        [ title |-> "Suspected Cardiac Arrest (Adult)",
          steps |-> <<
            "1. Call emergency services immediately (or ask someone nearby to call).",
            "2. Place the person on a firm, flat surface.",
            "3. Begin chest compressions at a rate of 100-120 per minute.",
            "4. Push hard and fast in the center of the chest allowing full recoil.",
            "5. If an AED is available, have someone bring and apply it following the prompts." >>,
          notes |-> <<
            "If you are alone, prioritize calling emergency services on speaker while starting compressions.",
            "Do not stop compressions unless you are too exhausted, someone takes over, or a medical professional tells you to stop." >>,
          stop_condition |-> "Emergency responders arrive and take over." ],
      choking |->
        [ title |-> "Severe Choking (Adult)",
          steps |-> <<
            "1. Ask the person if they are choking and if they can speak or cough.",
            "2. If they cannot cough, speak, or breathe, stand behind them.",
            "3. Perform abdominal thrusts (Heimlich maneuver) until the object is expelled.",
            "4. If the person becomes unresponsive, gently lower them to the ground and begin CPR." >>,
          notes |-> <<
            "If they can cough or speak, encourage them to continue coughing.",
            "Do not perform blind finger sweeps in the mouth." >>,
          stop_condition |-> "Object is expelled and breathing improves, or emergency services arrive." ],
      possible_stroke |->
        [ title |-> "Possible Stroke (FAST Assessment)",
          steps |-> <<
            "1. Check FACE: Ask them to smile - is one side drooping?",
            "2. Check ARMS: Ask them to raise both arms - does one drift downward?",
            "3. Check SPEECH: Ask them to repeat a simple phrase - is speech slurred or strange?",
            "4. Time: Note the time symptoms started.",
            "5. Call emergency services immediately and describe all symptoms and onset time." >>,
          notes |-> <<
            "Do not give them anything to eat or drink.",
            "Remain with them and monitor breathing and responsiveness." >>,
          stop_condition |-> "Emergency services arrive and take over." ],
      anaphylaxis |->
        [ title |-> "Suspected Anaphylaxis (Severe Allergic Reaction)",
          steps |-> <<
            "1. Check for signs: swelling of lips/face, difficulty breathing, hives, dizziness.",
            "2. If an epinephrine auto-injector (EpiPen) is available, assist the person to use it.",
            "3. Call emergency services immediately.",
            "4. Have the person lie down and elevate legs if they feel faint, unless this worsens breathing.",
            "5. If symptoms persist and a second auto-injector is available, it may be used per instructions (usually after 5-15 minutes)." >>,
          notes |-> <<
            "Even if symptoms improve after epinephrine, medical evaluation is required.",
            "Do not make the person walk or stand if they feel weak or dizzy." >>,
          stop_condition |-> "Emergency services arrive and take over." ],
      unconscious_but_breathing |->
        [ title |-> "Unconscious but Breathing (Recovery Position)",
          steps |-> <<
            "1. Call emergency services and report the situation.",
            "2. Check breathing: look for chest rise, listen near nose/mouth, feel for air.",
            "3. If breathing is normal, place the person in the recovery position on their side.",
            "4. Tilt the head slightly back to keep the airway open.",
            "5. Regularly re-check breathing until help arrives." >>,
          notes |-> <<
            "If at any point breathing stops or becomes abnormal, begin CPR.",
            "If there is suspected spinal injury, move the person carefully." >>,
          stop_condition |-> "Emergency services arrive and take over." ] ]

\* the keys of the catalog
CatalogKeys == DOMAIN PROTOCOLS

\* mutant: a lookup that silently substitutes a default protocol
ProtocolsGet_Default(emergency_type) ==
    IF emergency_type.t = "str" /\ emergency_type.v \in DOMAIN PROTOCOLS
    THEN PROTOCOLS[emergency_type.v]
    ELSE PROTOCOLS["unconscious_but_breathing"]

\* mutant: the table holds the stroke protocol under another key
ProtocolsGet_StrokeRenamed(emergency_type) ==
    IF emergency_type.t = "str" /\ emergency_type.v \in (DOMAIN PROTOCOLS \ {"possible_stroke"})
    THEN PROTOCOLS[emergency_type.v]
    ELSE IF emergency_type = [t |-> "str", v |-> "stroke"] THEN PROTOCOLS["possible_stroke"]
    ELSE None

\* PROTOCOLS.get(emergency_type): None for a key the table does not hold
ProtocolsGet(emergency_type) ==
    IF emergency_type.t = "str" /\ emergency_type.v \in DOMAIN PROTOCOLS
    THEN PROTOCOLS[emergency_type.v]
    ELSE None

\* get_protocol(emergency_type), for a hashable emergency_type
get_protocol(emergency_type) ==
    LET protocol == ProtocolsGet(emergency_type) IN
    IF protocol = None
    THEN [ status |-> "error",
           error_message |-> "Unknown emergency_type: " \o PyStr(emergency_type) \o "." ]
    ELSE [ status |-> "success", data |-> protocol ]

------------------------------------------------------------------------------
(* The collaborators (ADK runners).  A reply is what runner.run(...) does:  *)
(* it raises, or it yields a stream of events; an event is final or not and *)
(* carries a list of parts (empty when it has no content).                  *)

Raises == [raised |-> TRUE, stream |-> << >>]
Yields(stream) == [raised |-> FALSE, stream |-> stream]
\* an intermediate event, then the final response holding text
Says(text) ==
    Yields(<< [is_final |-> FALSE, parts |-> << "(working)" >>],
              [is_final |-> TRUE, parts |-> << text >>] >>)
\* a final response without content
SaysNothing == Yields(<< [is_final |-> TRUE, parts |-> << >>] >>)

\* the loop of _run_and_get_text: the last non-empty text of a final event
RECURSIVE FinalText(_, _)
FinalText(stream, final_text) ==
    IF stream = << >> THEN final_text
    ELSE LET event == Head(stream)
             part_text == IF event.is_final /\ Len(event.parts) > 0
                          THEN event.parts[1] ELSE ""
         IN FinalText(Tail(stream), IF part_text # "" THEN part_text ELSE final_text)

_run_and_get_text(reply) == FinalText(reply.stream, "")

------------------------------------------------------------------------------
(* Texts the triage collaborator can return, and json.loads on them *)

PROSE == "I think he is in cardiac arrest."
JSON_LIST == "[\"cardiac_arrest\"]"
JSON_NUMBER == "42"
JSON_STRING == "\"choking\""
JSON_NO_TYPE == "{\"confidence\": 1}"
JSON_NULL_TYPE == "{\"emergency_type\": null}"
JSON_NUM_TYPE == "{\"emergency_type\": 7}"
JSON_LIST_TYPE == "{\"emergency_type\": [\"choking\"]}"
\* the object naming emergency type k
JsonType(k) == "{\"emergency_type\": \"" \o k \o "\"}"

\* the types the triage persona is told to choose from
ConfiguredTypes == { EMERGENCY_TYPES[i] : i \in 1..Len(EMERGENCY_TYPES) }
UNKNOWN_TYPE == "burn"
\* the strings the collaborator names as emergency_type
NamedTypes == ConfiguredTypes \cup {UNKNOWN_TYPE, ""}

\* the object the triage persona is asked for, naming emergency type k: the
\* required fields emergency_type, confidence and summary, and red_flags
SUMMARY == "An adult collapsed and is not breathing."
RED_FLAG == "not breathing"
TriageJson(k) ==
    "{\"emergency_type\": \"" \o k \o "\", \"confidence\": 1, \"summary\": \""
      \o SUMMARY \o "\", \"red_flags\": [\"" \o RED_FLAG \o "\"]}"

\* json.loads(text): [ok |-> FALSE] stands for JSONDecodeError
json_loads(text) ==
    CASE text = JSON_LIST   -> [ok |-> TRUE, value |-> JList(<< JStr("cardiac_arrest") >>)]
      [] text = JSON_NUMBER -> [ok |-> TRUE, value |-> JNum(42)]
      [] text = JSON_STRING -> [ok |-> TRUE, value |-> JStr("choking")]
      [] text = JSON_NO_TYPE -> [ok |-> TRUE, value |-> JDict([confidence |-> JNum(1)])]
      [] text = JSON_NULL_TYPE -> [ok |-> TRUE, value |-> JDict([emergency_type |-> None])]
      [] text = JSON_NUM_TYPE -> [ok |-> TRUE, value |-> JDict([emergency_type |-> JNum(7)])]
      [] text = JSON_LIST_TYPE ->
            [ok |-> TRUE, value |-> JDict([emergency_type |-> JList(<< JStr("choking") >>)])]
      [] \E k \in NamedTypes : text = JsonType(k) ->
            [ok |-> TRUE,
             value |-> JDict([emergency_type |-> JStr(CHOOSE k \in NamedTypes : text = JsonType(k))])]
      [] \E k \in NamedTypes : text = TriageJson(k) ->
            [ok |-> TRUE,
             value |-> JDict([emergency_type |->
                                  JStr(CHOOSE k \in NamedTypes : text = TriageJson(k)),
                              confidence |-> JNum(1),
                              summary |-> JStr(SUMMARY),
                              red_flags |-> JList(<< JStr(RED_FLAG) >>)])]
      [] OTHER -> [ok |-> FALSE, value |-> None]

\* the payload triage substitutes when decoding fails
FallbackTriageJson ==
    JDict([ emergency_type |-> None,
            confidence |-> JNum(0),
            summary |-> JStr("Failed to parse triage JSON."),
            red_flags |-> JList(<< >>) ])

DEFAULT_TYPE == "unconscious_but_breathing"

------------------------------------------------------------------------------
(* The Session Context *)

LifeSaverContext(session_id) ==
    [ session_id |-> session_id,
      emergency_type |-> None,
      protocol |-> None,
      current_step_index |-> 0,
      done |-> FALSE,
      events |-> << >> ]

Event(type, content) == [type |-> type, content |-> content]

\* mutant: the event is inserted at the front of the log
AppendEvent_Prepend(ctx, type, content) ==
    [ctx EXCEPT !.events = << Event(type, content) >> \o @]

\* ctx.events.append({"type": type, "content": content})
AppendEvent(ctx, type, content) ==
    [ctx EXCEPT !.events = Append(@, Event(type, content))]

\* a call's outcome: the context as the call leaves it, the exception it
\* raised ("" when it returned), the value it returned and the collaborator
\* calls it made, in order
Outcome(ctx, error, ret, calls) ==
    [ctx |-> ctx, error |-> error, ret |-> ret, calls |-> calls]

\* one runner.run(..., new_message=content): the runner, the text of the
\* content and what the runner did
Call(runner, content_text, reply) ==
    [runner |-> runner, content_text |-> content_text, reply |-> reply]

\* json.dumps(obj, indent=indent).  The text is represented by the value it
\* encodes and its layout: json.dumps is one-to-one on the values the
\* orchestrator serializes (strings, numbers, null, lists, dicts).
json_dumps(obj, indent) == [t |-> "json_text", obj |-> obj, indent |-> indent]

------------------------------------------------------------------------------
(* LifeSaverOrchestrator.triage *)

\* ctx.emergency_type = triage_json.get("emergency_type") or "unconscious_but_breathing"
ResolveType(triage_json) ==
    PyOr(DictGet(triage_json, "emergency_type"), JStr(DEFAULT_TYPE))

\* mutant: the protocol is not stored
StoreProtocol_NoProtocol(ctx, data) ==
    [ctx EXCEPT !.current_step_index = 0, !.done = FALSE]

\* mutant: the step index is not reset
StoreProtocol_NoReset(ctx, data) ==
    [ctx EXCEPT !.protocol = data, !.done = FALSE]

\* mutant: done is not reset
StoreProtocol_KeepsDone(ctx, data) ==
    [ctx EXCEPT !.protocol = data, !.current_step_index = 0]

\* what a successful lookup stores in the context
StoreProtocol(ctx, data) ==
    [ctx EXCEPT !.protocol = data, !.current_step_index = 0, !.done = FALSE]

triage(ctx, user_message, reply) ==
    LET c1 == AppendEvent(ctx, "user_message", user_message) IN
    LET calls == << Call("triage_runner", user_message, reply) >> IN
    IF reply.raised THEN Outcome(c1, "CollaboratorError", None, calls)
    ELSE
    LET triage_text == _run_and_get_text(reply)
        c2 == AppendEvent(c1, "triage_output_raw", triage_text)
        decoded == json_loads(triage_text)
        triage_json == IF decoded.ok THEN decoded.value ELSE FallbackTriageJson
        c3 == AppendEvent(c2, "triage_output_parsed", triage_json)
    IN
    \* a decoded value that is no dict has no .get
    IF triage_json.t # "dict" THEN Outcome(c3, "AttributeError", None, calls)
    ELSE
    LET c4 == [c3 EXCEPT !.emergency_type = ResolveType(triage_json)] IN
    \* PROTOCOLS.get of an unhashable key
    IF ~Hashable(c4.emergency_type) THEN Outcome(c4, "TypeError", None, calls)
    ELSE
    LET protocol_resp == get_protocol(c4.emergency_type)
        c5 == AppendEvent(c4, "protocol_lookup", protocol_resp)
    IN
    IF protocol_resp.status # "success" THEN Outcome(c5, "RuntimeError", None, calls)
    ELSE Outcome(StoreProtocol(c5, protocol_resp.data), "", None, calls)

------------------------------------------------------------------------------
(* LifeSaverOrchestrator.next_instruction *)

FALLBACK_CALMING ==
    "You're doing the right thing. Keep going with the current step; help is on the way."

BLANK == "   "
CALM == "You are doing great. Help is on the way."
PADDED == "  Stay with him.  "

\* mutant: nothing is stripped
strip_Nothing(text) == text

\* text.strip(), on the texts the calming collaborator returns
strip(text) ==
    CASE text = BLANK -> ""
      [] text = PADDED -> "Stay with him."
      [] OTHER -> text

\* mutant: the index is taken to count from 1
PyIndex_FromOne(seq, i) ==
    IF 1 <= i /\ i <= Len(seq) THEN [ok |-> TRUE, value |-> seq[i]]
    ELSE [ok |-> FALSE, value |-> ""]

\* seq[i] of a Python list: ok is FALSE for an IndexError
PyIndex(seq, i) ==
    IF 0 <= i /\ i < Len(seq) THEN [ok |-> TRUE, value |-> seq[i + 1]]
    ELSE IF -Len(seq) <= i /\ i < 0 THEN [ok |-> TRUE, value |-> seq[Len(seq) + i + 1]]
    ELSE [ok |-> FALSE, value |-> ""]

\* mutant: the index wraps around after the last step
NextStepIndex_Wrap(current_step_index, steps) ==
    (current_step_index + 1) % Len(steps)

\* mutant: the index is not clamped to the last step
NextStepIndex_NoClamp(current_step_index, steps) ==
    current_step_index + 1

\* next_step_index = min(ctx.current_step_index + 1, len(steps) - 1)
NextStepIndex(current_step_index, steps) ==
    Min(current_step_index + 1, Len(steps) - 1)

\* mutant: done compares with len(steps)
IsDone_OffByOne(next_step_index, steps) == next_step_index = Len(steps)

\* done = next_step_index == len(steps) - 1
IsDone(next_step_index, steps) == next_step_index = Len(steps) - 1

\* the text handed back as calming_message
CalmingMessage(calming_message) ==
    IF calming_message = "" \/ strip(calming_message) = ""
    THEN FALLBACK_CALMING
    ELSE calming_message

\* payload = {...}: what the instructor is told
InstructionPayload(ctx, steps, user_update) ==
    [ emergency_type |-> ctx.emergency_type,
      protocol_title |-> ctx.protocol.title,
      steps |-> steps,
      current_step_index |-> ctx.current_step_index,
      user_update |-> user_update ]

\* mutant: the step is not advanced when the instructor said nothing
StepAfter_WaitsForInstructor(current_step_index, steps, instruction_text, user_update) ==
    IF instruction_text = "" THEN current_step_index
    ELSE NextStepIndex(current_step_index, steps)

\* "For now, just move to next step": the instructor's text and the user's
\* update are at hand and are not consulted
StepAfter(current_step_index, steps, instruction_text, user_update) ==
    NextStepIndex(current_step_index, steps)

\* calming_prompt = f"The user said: '{user_update}'. They are on step index ..."
CalmingPrompt(user_update, next_step_index, title) ==
    "The user said: '" \o user_update \o "'. They are on step index "
      \o ToString(next_step_index) \o " of protocol '" \o title \o "'. "
      \o "Respond with a short, calm reassurance message."

\* next_instruction from "steps = ctx.protocol['steps']" on
Instruct(ctx, user_update, instruction_reply, calming_reply) ==
    LET steps == ctx.protocol.steps
        c1 == AppendEvent(ctx, "user_update", user_update)
        payload == InstructionPayload(c1, steps, user_update)
        calls1 == << Call("instruction_runner", json_dumps(payload, None), instruction_reply) >>
    IN
    IF instruction_reply.raised THEN Outcome(c1, "CollaboratorError", None, calls1)
    ELSE
    LET instruction_text == _run_and_get_text(instruction_reply)
        c2 == AppendEvent(c1, "instruction_output_raw", instruction_text)
        next_step_index == StepAfter(ctx.current_step_index, steps, instruction_text, user_update)
        done == IsDone(next_step_index, steps)
        instruction_message == PyIndex(steps, next_step_index)
    IN
    IF ~instruction_message.ok THEN Outcome(c2, "IndexError", None, calls1)
    ELSE
    LET c3 == [c2 EXCEPT !.current_step_index = next_step_index, !.done = done]
        calming_prompt == CalmingPrompt(user_update, next_step_index, c3.protocol.title)
        calls2 == Append(calls1, Call("calming_runner", calming_prompt, calming_reply))
    IN
    IF calming_reply.raised THEN Outcome(c3, "CollaboratorError", None, calls2)
    ELSE
    LET calming_message == _run_and_get_text(calming_reply)
        c4 == AppendEvent(c3, "calming_output_raw", calming_message)
    IN
    Outcome(c4, "",
            [ instruction_message |-> instruction_message.value,
              calming_message |-> CalmingMessage(calming_message),
              done |-> c4.done ],
            calls2)

\* mutant: the update is logged before the protocol is looked for
next_instruction_LogsFirst(ctx, user_update, instruction_reply, calming_reply) ==
    IF ctx.protocol = None
    THEN Outcome(AppendEvent(ctx, "user_update", user_update), "RuntimeError", None, << >>)
    ELSE Instruct(ctx, user_update, instruction_reply, calming_reply)

\* mutant: the calming event is written after the fallback is substituted
next_instruction_LogsFallback(ctx, user_update, instruction_reply, calming_reply) ==
    IF ctx.protocol = None THEN Outcome(ctx, "RuntimeError", None, << >>)
    ELSE LET out == Instruct(ctx, user_update, instruction_reply, calming_reply) IN
         IF out.error # "" THEN out
         ELSE [out EXCEPT !.ctx.events[Len(out.ctx.events)].content = out.ret.calming_message]

next_instruction(ctx, user_update, instruction_reply, calming_reply) ==
    \* if not ctx.protocol: raise RuntimeError
    IF ctx.protocol = None THEN Outcome(ctx, "RuntimeError", None, << >>)
    ELSE Instruct(ctx, user_update, instruction_reply, calming_reply)

------------------------------------------------------------------------------
(* LifeSaverOrchestrator.generate_emt_report *)

\* mutant: only what the user said is serialized
ReportInput_UserEventsOnly(ctx) ==
    json_dumps(SelectSeq(ctx.events, LAMBDA e : e.type \in {"user_message", "user_update"}), 2)

\* events_text = json.dumps(ctx.events, indent=2)
ReportInput(ctx) == json_dumps(ctx.events, 2)

\* mutant: a report is refused until a protocol is stored
generate_emt_report_NeedsProtocol(ctx, reply) ==
    IF ctx.protocol = None THEN Outcome(ctx, "RuntimeError", None, << >>)
    ELSE LET calls == << Call("emt_runner", ReportInput(ctx), reply) >> IN
         IF reply.raised THEN Outcome(ctx, "CollaboratorError", None, calls)
         ELSE LET report == _run_and_get_text(reply) IN
              Outcome(AppendEvent(ctx, "emt_report", report), "", report, calls)

\* mutant: an empty report is not logged
generate_emt_report_LogsOnlyText(ctx, reply) ==
    LET calls == << Call("emt_runner", ReportInput(ctx), reply) >> IN
    IF reply.raised THEN Outcome(ctx, "CollaboratorError", None, calls)
    ELSE LET report == _run_and_get_text(reply) IN
         Outcome(IF report = "" THEN ctx ELSE AppendEvent(ctx, "emt_report", report),
                 "", report, calls)

generate_emt_report(ctx, reply) ==
    LET calls == << Call("emt_runner", ReportInput(ctx), reply) >> IN
    IF reply.raised THEN Outcome(ctx, "CollaboratorError", None, calls)
    ELSE
    LET report == _run_and_get_text(reply) IN
    Outcome(AppendEvent(ctx, "emt_report", report), "", report, calls)

------------------------------------------------------------------------------
(* Inputs *)

Sessions == {"s1"}
\* the contexts one caller (or two) can hold from one orchestrator, by the
\* session id they were started with
Contexts == {"s1", "s2"}

UserMessages == {"My dad just collapsed and he's not breathing."}
UserUpdates ==
    {"I'm on the floor next to him.",
     "I'm doing chest compressions like you said.",
     "The ambulance just arrived."}

INSTRUCTOR_JSON ==
    "{\"next_step_index\": 0, \"done\": true, \"next_step_message\": \"Repeat the first step.\"}"
\* an instructor that wants to skip ahead
INSTRUCTOR_SKIP ==
    "{\"next_step_index\": 3, \"done\": false, \"next_step_message\": \"Go to the last step.\"}"
REPORT == "Adult male collapsed, not breathing. Bystander started chest compressions."

\* the replies of a triage persona that answers as it is asked (response
\* schema and instruction of create_triage_agent): the whole object, its
\* emergency_type one of EMERGENCY_TYPES -- here the type of the 5-step and
\* of the 4-step protocol
GoodTriageReplies ==
    {Says(TriageJson("cardiac_arrest")), Says(TriageJson("choking"))}
\* a reply of the asked shape that names a type outside EMERGENCY_TYPES
OffEnumTriageReplies == {Says(TriageJson(UNKNOWN_TYPE))}

\* every kind of reply of the triage collaborator
TriageReplies ==
    {Raises, SaysNothing, Says(PROSE), Says(JSON_LIST), Says(JSON_NUMBER),
     Says(JSON_STRING), Says(JSON_NO_TYPE), Says(JSON_NULL_TYPE),
     Says(JSON_NUM_TYPE), Says(JSON_LIST_TYPE)}
      \cup { Says(JsonType(k)) : k \in NamedTypes }
      \cup GoodTriageReplies \cup OffEnumTriageReplies
InstructionReplies == {Raises, SaysNothing, Says(INSTRUCTOR_JSON)}
CalmingReplies == {Raises, SaysNothing, Says(BLANK), Says(CALM), Says(PADDED)}
\* the calming collaborator failing, answering without content, answering
CoarseCalmingReplies == {Raises, SaysNothing, Says(CALM)}
ReportReplies == {Raises, SaysNothing, Says(REPORT)}

\* the replies of the other collaborators when they answer as their
\* personas ask
GoodInstructionReplies == {Says(INSTRUCTOR_JSON)}
GoodCalmingReplies == {Says(CALM)}
GoodReportReplies == {Says(REPORT)}
\* everything an instructor that answers can say: nothing, prose, one or
\* the other next_step_index and done
InstructorOutputs ==
    {SaysNothing, Says(PROSE), Says(INSTRUCTOR_JSON), Says(INSTRUCTOR_SKIP)}

\* the arguments get_protocol is called with directly: every catalog key,
\* strings that are no key (a misspelt key among them) and None
LookupArgs ==
    { JStr(k) : k \in CatalogKeys \cup {UNKNOWN_TYPE, "", "Cardiac_Arrest", "stroke"} }
      \cup {None}

------------------------------------------------------------------------------
(* State machine *)

NoCall ==
    [op |-> "none", session_id |-> "", error |-> "", ret |-> None,
     pre |-> LifeSaverContext(""), calls |-> << >>, arg |-> None,
     others |-> [s \in {} |-> None]]

\* bookkeeping of one session: calls made on it; next_instruction calls that
\* returned since the protocol was last stored; whether one of them was cut
\* short by a collaborator since then; the triage calls whose lookup gave a
\* response, the next_instruction calls that returned and the
\* generate_emt_report calls made since the context was started
NoHistory ==
    [ncalls |-> 0, nexts |-> 0, cut |-> FALSE,
     lookups |-> 0, instructions |-> 0, reports |-> 0]
\* ... and `alone`: the context the session's own calls, with the replies
\* they got, produce when they are applied to a context nobody else is using
History(s) == NoHistory @@ [alone |-> LifeSaverContext(s)]

(* Contexts and their event lists are Python objects: a call is handed a    *)
(* reference to a context, assigns to its attributes and appends to the    *)
(* list its events attribute refers to.  objects and lists are the two     *)
(* kinds of object by address, held is the reference the caller keeps for  *)
(* each session id.  An address only names an object; the program never    *)
(* looks at one (it uses neither id() nor `is`).                           *)
Addresses == 1..Cardinality(Contexts)
NoAddress == 0

\* the address of a newly built object: one that no live object has
Fresh(live) == CHOOSE a \in Addresses \ live : \A b \in Addresses \ live : a <= b

\* mutant: one list is the default of every context (events = [] on the class)
default_factory_Shared(live) == 1

\* field(default_factory=list): every new context gets a list built for it
default_factory(live) == Fresh(live)

\* the addresses of the contexts and of the event lists alive in objs
LiveObjects(objs) == {a \in Addresses : objs[a] # None}
LiveLists(objs) == {objs[a].events : a \in LiveObjects(objs)}

\* the context at address a as the program reads it: its attributes, and as
\* events the content of the list that attribute refers to
Load(a) == [objects[a] EXCEPT !.events = lists[@]]

\* the caller's contexts by session id; a session that has not been started
\* is shown as the context start_session will build for it
ctxs ==
    [s \in Contexts |->
        IF held[s] = NoAddress THEN LifeSaverContext(s) ELSE Load(held[s])]

Init ==
    /\ started = {}
    /\ held = [s \in Contexts |-> NoAddress]
    /\ objects = [a \in Addresses |-> None]
    /\ lists = [a \in Addresses |-> << >>]
    /\ last = NoCall
    /\ hist = [s \in Contexts |-> History(s)]

\* the contexts other than that of session s, as they are
Others(s) == [k \in Contexts \ {s} |-> ctxs[k]]

\* the state after a call on session s with outcome out: the attributes are
\* assigned on the context the caller's reference leads to, the events are
\* in the list that context refers to; alone is the outcome of the same call
\* with the same replies on hist[s].alone
Called(s, op, out, h, alone) ==
    /\ objects' = [objects EXCEPT ![held[s]] = [out.ctx EXCEPT !.events = objects[held[s]].events]]
    /\ lists' = [lists EXCEPT ![objects[held[s]].events] = out.ctx.events]
    /\ last' = [op |-> op, session_id |-> s, error |-> out.error, ret |-> out.ret,
                pre |-> ctxs[s], calls |-> out.calls, arg |-> None, others |-> Others(s)]
    /\ hist' = [hist EXCEPT ![s] = [h EXCEPT !.ncalls = hist[s].ncalls + 1,
                                              !.alone = alone.ctx]]
    /\ UNCHANGED << started, held >>

\* start_session always succeeds and builds a new context with a new event
\* list; the caller keeps one reference per session id, so a repeated call
\* drops the context held before, and with it the list only it referred to
StartSession(s) ==
    LET kept == [a \in Addresses |-> IF a = held[s] THEN None ELSE objects[a]]
        ctx == Fresh(LiveObjects(kept))
        events == default_factory(LiveLists(kept))
    IN
    /\ started' = started \cup {s}
    /\ held' = [held EXCEPT ![s] = ctx]
    /\ objects' = [kept EXCEPT ![ctx] = [LifeSaverContext(s) EXCEPT !.events = events]]
    /\ lists' = [l \in Addresses |-> IF l \in LiveLists(kept) THEN lists[l] ELSE << >>]
    /\ last' = [NoCall EXCEPT !.op = "start_session", !.session_id = s,
                              !.others = Others(s)]
    /\ hist' = [hist EXCEPT ![s] = History(s)]

Triage(s, max, replies) ==
    /\ s \in started
    /\ hist[s].ncalls < max
    /\ \E user_message \in UserMessages, reply \in replies :
         LET out == triage(ctxs[s], user_message, reply) IN
         Called(s, "triage", out,
                IF out.error = ""
                THEN [hist[s] EXCEPT !.nexts = 0, !.cut = FALSE, !.lookups = @ + 1]
                ELSE IF out.error = "RuntimeError" THEN [hist[s] EXCEPT !.lookups = @ + 1]
                ELSE hist[s],
                triage(hist[s].alone, user_message, reply))

NextInstruction(s, max, updates, instruction_replies, calming_replies) ==
    /\ s \in started
    /\ hist[s].ncalls < max
    /\ \E user_update \in updates, instruction_reply \in instruction_replies,
          calming_reply \in calming_replies :
         LET out == next_instruction(ctxs[s], user_update, instruction_reply, calming_reply) IN
         Called(s, "next_instruction", out,
                IF out.error = "" THEN [hist[s] EXCEPT !.nexts = @ + 1, !.instructions = @ + 1]
                ELSE IF out.error = "CollaboratorError" THEN [hist[s] EXCEPT !.cut = TRUE]
                ELSE hist[s],
                next_instruction(hist[s].alone, user_update, instruction_reply, calming_reply))

\* the lookup tool called on its own; it touches no context
GetProtocol(args) ==
    /\ \E emergency_type \in args :
         last' = [NoCall EXCEPT !.op = "get_protocol",
                                !.ret = get_protocol(emergency_type),
                                !.arg = emergency_type]
    /\ UNCHANGED << started, held, objects, lists, hist >>

GenerateEmtReport(s, max, replies) ==
    /\ s \in started
    /\ hist[s].ncalls < max
    /\ \E reply \in replies :
         Called(s, "generate_emt_report", generate_emt_report(ctxs[s], reply),
                [hist[s] EXCEPT !.reports = @ + 1],
                generate_emt_report(hist[s].alone, reply))

\* every kind of reply of every collaborator, few calls (the finer kinds of
\* calming text are DegradedNext's)
Next ==
    \E s \in Sessions :
        \/ StartSession(s)
        \/ Triage(s, MaxCalls, TriageReplies)
        \/ NextInstruction(s, MaxCalls, UserUpdates, InstructionReplies, CoarseCalmingReplies)
        \/ GenerateEmtReport(s, MaxCalls, ReportReplies)

Spec == Init /\ [][Next]_vars

\* collaborators that answer as asked, but for a triage persona that may name
\* a type outside EMERGENCY_TYPES; enough calls to walk a protocol to its end
\* and triage again
WalkNext ==
    \E s \in Sessions :
        \/ StartSession(s)
        \/ Triage(s, MaxWalkCalls, GoodTriageReplies \cup OffEnumTriageReplies)
        \/ NextInstruction(s, MaxWalkCalls, UserUpdates, GoodInstructionReplies, GoodCalmingReplies)
        \/ GenerateEmtReport(s, MaxWalkCalls, GoodReportReplies)

WalkSpec == Init /\ [][WalkNext]_vars

\* the 4-step choking protocol walked to its end and past it while the
\* instructor and calming collaborators degrade in every way
DegradedNext ==
    \E s \in Sessions :
        \/ StartSession(s)
        \/ Triage(s, MaxDegradedCalls, {Says(TriageJson("choking"))})
        \/ NextInstruction(s, MaxDegradedCalls, {"The ambulance just arrived."},
                           InstructionReplies, CalmingReplies)

DegradedSpec == Init /\ [][DegradedNext]_vars

\* the protocol lookup, called on its own and by triage
LookupNext ==
    \/ GetProtocol(LookupArgs)
    \/ \E s \in Sessions :
        \/ StartSession(s)
        \/ Triage(s, MaxLookupCalls, TriageReplies)

LookupSpec == Init /\ [][LookupNext]_vars

\* two contexts of one orchestrator, their calls interleaved in every order
PairNext ==
    \E s \in Contexts :
        \/ StartSession(s)
        \/ Triage(s, MaxPairCalls, GoodTriageReplies \cup OffEnumTriageReplies \cup {Raises})
        \/ NextInstruction(s, MaxPairCalls, {"The ambulance just arrived."},
                           GoodInstructionReplies, {SaysNothing, Says(CALM)})
        \/ GenerateEmtReport(s, MaxPairCalls, GoodReportReplies)

PairSpec == Init /\ [][PairNext]_vars

------------------------------------------------------------------------------
(* Properties *)

\* the context the last call was made on, as the call left it
Cur == ctxs[last.session_id]
Returned(op) == last.op = op /\ last.error = ""
InCatalog(x) == x.t = "str" /\ x.v \in CatalogKeys
Kinds(events) == [i \in 1..Len(events) |-> events[i].type]
\* the events the last call appended
Appended == SubSeq(Cur.events, Len(last.pre.events) + 1, Len(Cur.events))

\* C1: a next_instruction call on a context with a protocol never lowers
\* current_step_index and never takes it past len(steps)-1; when the call
\* returns, the new index is min(old index + 1, len(steps)-1) and done is
\* true exactly when the new index is len(steps)-1.
C1_AdvanceClamped ==
    (last.op = "next_instruction" /\ last.pre.protocol # None) =>
        LET n == Len(last.pre.protocol.steps)
            old == last.pre.current_step_index
            new == Cur.current_step_index
        IN /\ old <= new
           /\ new <= n - 1
           /\ last.error = "" =>
                /\ new = Min(old + 1, n - 1)
                /\ Cur.done = (new = n - 1)
                /\ last.ret.done = Cur.done

\* C1 witness: a returned call made at the last step, where the index is clamped
C1_Witness ==
    /\ Returned("next_instruction")
    /\ last.pre.current_step_index = Len(last.pre.protocol.steps) - 1
    /\ Cur.current_step_index = last.pre.current_step_index
    /\ Cur.done

MalformedTriageTexts ==
    {"", PROSE, JSON_LIST, JSON_NUMBER, JSON_STRING, JSON_NO_TYPE, JSON_NULL_TYPE}

\* C2: a triage call whose collaborator returned malformed text (empty, not
\* JSON, JSON that is no object, an object without emergency_type or with a
\* null one) returns without error, has logged triage_output_parsed, and
\* leaves emergency_type = "unconscious_but_breathing" with its protocol set.
C2_MalformedTriageDefaults ==
    (/\ last.op = "triage"
     /\ Len(Appended) >= 2
     /\ Appended[2].content \in MalformedTriageTexts) =>
        /\ last.error = ""
        /\ Len(Appended) >= 3
        /\ Appended[3].type = "triage_output_parsed"
        /\ Cur.emergency_type = JStr(DEFAULT_TYPE)
        /\ Cur.protocol = PROTOCOLS[DEFAULT_TYPE]

\* C3 (as claimed): protocol and emergency_type are both set or both unset.
C3_BothOrNeither ==
    \A s \in Sessions : (ctxs[s].protocol = None) <=> (ctxs[s].emergency_type = None)

\* C3 (amended): protocol is never set while emergency_type is unset, and
\* after every triage call that returns both are set.
C3_ProtocolImpliesType ==
    /\ \A s \in Sessions : ctxs[s].protocol # None => ctxs[s].emergency_type # None
    /\ Returned("triage") => (Cur.protocol # None /\ Cur.emergency_type # None)

\* C3 witness: after a triage whose lookup failed on a context without a
\* protocol, emergency_type is set and protocol is not
C3_Witness ==
    /\ last.op = "triage"
    /\ last.error = "RuntimeError"
    /\ Cur.emergency_type # None
    /\ Cur.protocol = None

\* the last call is a triage that resolved an emergency type the catalog
\* does not hold
ResolvedUnknownType ==
    /\ last.op = "triage"
    /\ Len(Appended) >= 3
    /\ Appended[3].content.t = "dict"
    /\ ~InCatalog(Cur.emergency_type)

\* C4: a triage call that resolves an emergency type the catalog does not
\* recognise raises, and the context's protocol is unset after the call,
\* also on a context an earlier triage populated.
C4_FailedLookupLeavesNoProtocol ==
    ResolvedUnknownType => (last.error # "" /\ Cur.protocol = None)

\* C5 (as claimed): emergency_type is unset or one of the five catalog keys.
C5_TypeInClosedSet ==
    \A s \in Sessions :
        ctxs[s].emergency_type = None \/ InCatalog(ctxs[s].emergency_type)

\* C5 (amended): after every triage call that returns, emergency_type is one
\* of the five catalog keys; a triage call that leaves another value in the
\* context raised; next_instruction and generate_emt_report leave
\* emergency_type as it was.
C5_TypeInClosedSetAfterTriage ==
    /\ Returned("triage") => InCatalog(Cur.emergency_type)
    /\ (last.op = "triage" /\ Cur.emergency_type # last.pre.emergency_type
          /\ ~InCatalog(Cur.emergency_type)) => last.error \in {"RuntimeError", "TypeError"}
    /\ last.op \in {"next_instruction", "generate_emt_report"} =>
          Cur.emergency_type = last.pre.emergency_type

\* C5 witness: a triage that returned although the collaborator named no
\* type, having stored the default key
C5_Witness ==
    /\ Returned("triage")
    /\ Appended[2].content = JSON_NULL_TYPE
    /\ Cur.emergency_type = JStr(DEFAULT_TYPE)

\* C6: whenever a protocol is set, current_step_index is a valid index into
\* its steps: 0 <= current_step_index <= len(steps)-1.
C6_IndexValid ==
    \A s \in Sessions :
        ctxs[s].protocol # None =>
            /\ 0 <= ctxs[s].current_step_index
            /\ ctxs[s].current_step_index <= Len(ctxs[s].protocol.steps) - 1

\* C6 witness: a second triage has replaced a protocol by one with fewer
\* steps, on a context whose index was past the new protocol's last step
C6_Witness ==
    /\ Returned("triage")
    /\ last.pre.protocol # None
    /\ last.pre.current_step_index > Len(Cur.protocol.steps) - 1
    /\ Cur.current_step_index = 0

\* C7 (as claimed): no operation makes current_step_index smaller than it
\* was before the call.
C7_IndexNeverDecreases ==
    last.op # "none" => Cur.current_step_index >= last.pre.current_step_index

\* C7 (amended): current_step_index starts at 0; next_instruction and
\* generate_emt_report never lower it, a triage call that raises leaves it
\* as it was, and a triage call that returns sets it to 0.
C7_IndexLoweredOnlyByTriage ==
    /\ last.op = "start_session" => Cur.current_step_index = 0
    /\ last.op \in {"next_instruction", "generate_emt_report"} =>
          Cur.current_step_index >= last.pre.current_step_index
    /\ (last.op = "triage" /\ last.error # "") =>
          Cur.current_step_index = last.pre.current_step_index
    /\ Returned("triage") => Cur.current_step_index = 0

\* C7 witness: a triage that returned on a context that had advanced
C7_Witness ==
    /\ Returned("triage")
    /\ last.pre.current_step_index > 0
    /\ Cur.current_step_index = 0

\* C8: a next_instruction call made when done is already true does not raise
\* by itself (no IndexError, no RuntimeError: the only error it can surface
\* is one a collaborator raised), leaves current_step_index, done, protocol
\* and emergency_type unchanged with the index at the last step, and when its
\* collaborators answer it returns the last step with done true.
C8_DonePinned ==
    (last.op = "next_instruction" /\ last.pre.done) =>
        LET steps == last.pre.protocol.steps IN
        /\ last.error \in {"", "CollaboratorError"}
        /\ Cur.current_step_index = last.pre.current_step_index
        /\ Cur.current_step_index = Len(steps) - 1
        /\ Cur.done
        /\ Cur.protocol = last.pre.protocol
        /\ Cur.emergency_type = last.pre.emergency_type
        /\ last.error = "" =>
              /\ last.ret.instruction_message = steps[Len(steps)]
              /\ last.ret.done

\* C8 witness: a call made with done already true has returned, its
\* instructor having answered nothing
C8_Witness ==
    /\ Returned("next_instruction")
    /\ last.pre.done
    /\ last.ret.done
    /\ Appended[2].content = ""

\* C9: with a protocol of n steps stored by the last successful triage, after
\* k next_instruction calls (none cut short by a collaborator) the index is
\* min(k, n-1) and done is true exactly when k >= n-1: false after each of
\* the first n-2 calls, true from call n-1 on.
C9_DoneAtLastStep ==
    \A s \in Sessions :
        (ctxs[s].protocol # None /\ ~hist[s].cut) =>
            LET n == Len(ctxs[s].protocol.steps)
                k == hist[s].nexts
            IN /\ ctxs[s].current_step_index = Min(k, n - 1)
               /\ ctxs[s].done = (k >= n - 1)

\* C9 witness: the fourth call on the 5-step cardiac_arrest protocol has
\* turned done from false to true at index 4
C9_Witness ==
    /\ Returned("next_instruction")
    /\ Cur.emergency_type = JStr("cardiac_arrest")
    /\ Len(Cur.protocol.steps) = 5
    /\ hist[last.session_id].nexts = 4
    /\ ~last.pre.done
    /\ Cur.done
    /\ Cur.current_step_index = 4

FirstRoundKinds ==
    << "user_message", "triage_output_raw", "triage_output_parsed", "protocol_lookup",
       "user_update", "instruction_output_raw", "calming_output_raw" >>

\* the last call is the second call on its session, a next_instruction that
\* returned, so the first was a triage that succeeded
OneTriageOneNext ==
    /\ Returned("next_instruction")
    /\ hist[last.session_id].ncalls = 2

\* C10: on a fresh context, after one successful triage and one
\* next_instruction call the event kinds are exactly user_message,
\* triage_output_raw, triage_output_parsed, protocol_lookup, user_update,
\* instruction_output_raw, calming_output_raw, in this order.
C10_EventOrder ==
    OneTriageOneNext => Kinds(Cur.events) = FirstRoundKinds

\* C10 witness: the round with unparseable triage text and an empty calming
\* response
C10_Witness ==
    /\ OneTriageOneNext
    /\ Cur.events[2].content = PROSE
    /\ Cur.events[7].content = ""

\* two log entries are the same entry
SameEvent(a, b) == a.type = b.type /\ a.content = b.content
\* log before is a prefix of log after
IsPrefix(before, after) ==
    /\ Len(before) <= Len(after)
    /\ \A i \in 1..Len(before) : SameEvent(before[i], after[i])
Operations == {"triage", "next_instruction", "generate_emt_report"}

\* C11: the event log is append-only: for every triage, next_instruction
\* and generate_emt_report call, whether it returns or raises, the log as it
\* was before the call is a prefix of the log after the call.
C11_AppendOnly ==
    last.op \in Operations => IsPrefix(last.pre.events, Cur.events)

\* C11 witness: a next_instruction call that raised half-way (the calming
\* collaborator failed) on a log that already held the triage's events, and
\* that had appended two events by then
C11_Witness ==
    /\ last.op = "next_instruction"
    /\ last.error = "CollaboratorError"
    /\ Len(last.pre.events) = 4
    /\ Len(Cur.events) = 6
    /\ IsPrefix(last.pre.events, Cur.events)

\* the text of a collaborator's final response ("" when it has no content)
Said(reply) ==
    LET event == reply.stream[Len(reply.stream)] IN
    IF event.is_final /\ Len(event.parts) > 0 THEN event.parts[1] ELSE ""
\* empty or whitespace only
IsBlank(text) == text \in {"", BLANK}
\* the reply the calming collaborator gave to the last call
CalmingReply == last.calls[2].reply

\* C12: a next_instruction call that returns hands back the fixed fallback
\* sentence as calming_message exactly when the calming collaborator's
\* output is empty or whitespace only; otherwise it hands back that output
\* unchanged; the calming_message is never empty or blank.
C12_CalmingFallback ==
    Returned("next_instruction") =>
        LET output == Said(CalmingReply)
            calming_message == last.ret.calming_message
        IN /\ (calming_message = FALLBACK_CALMING) <=> IsBlank(output)
           /\ ~IsBlank(output) => calming_message = output
           /\ ~IsBlank(calming_message)

\* C12 witness: the collaborator answered with spaces only and the caller
\* got the fallback sentence
C12_Witness ==
    /\ Returned("next_instruction")
    /\ Said(CalmingReply) = BLANK
    /\ last.ret.calming_message = FALLBACK_CALMING

\* C13: every next_instruction call made on a context whose protocol is set
\* gives the caller a result holding a step of the protocol as instruction
\* and a non-blank reassurance, whatever the instructor and calming
\* collaborators do: answer with empty text, with malformed text, or fail.
C13_AlwaysAnswers ==
    (last.op = "next_instruction" /\ last.pre.protocol # None) =>
        /\ last.error = ""
        /\ \E i \in 1..Len(Cur.protocol.steps) :
              last.ret.instruction_message = Cur.protocol.steps[i]
        /\ ~IsBlank(last.ret.calming_message)

\* the call left every field of the context but the log as it was
FieldsUnchanged ==
    /\ Cur.emergency_type = last.pre.emergency_type
    /\ Cur.protocol = last.pre.protocol
    /\ Cur.current_step_index = last.pre.current_step_index
    /\ Cur.done = last.pre.done
LogUnchanged ==
    /\ Len(Cur.events) = Len(last.pre.events)
    /\ IsPrefix(last.pre.events, Cur.events)

\* C14: a next_instruction call on a context without a protocol fails with
\* an error and has no effect: no collaborator is called, no event is
\* appended, and emergency_type, protocol, current_step_index and done are
\* as they were.
C14_NoProtocolNoEffect ==
    (last.op = "next_instruction" /\ last.pre.protocol = None) =>
        /\ last.error = "RuntimeError"
        /\ Len(last.calls) = 0
        /\ LogUnchanged
        /\ FieldsUnchanged

\* C14 witness: next_instruction after a triage whose lookup failed, on a
\* context that holds the unknown type and four events and no protocol
C14_Witness ==
    /\ last.op = "next_instruction"
    /\ last.error = "RuntimeError"
    /\ last.pre.protocol = None
    /\ last.pre.emergency_type = JStr(UNKNOWN_TYPE)
    /\ Len(Cur.events) = 4

\* C15 (as claimed): a generate_emt_report call on a context whose protocol
\* is unset fails with an error, as next_instruction does.
C15_ReportNeedsProtocol ==
    (last.op = "generate_emt_report" /\ last.pre.protocol = None) =>
        last.error # ""

\* C15 (amended): a generate_emt_report call on a context whose protocol is
\* unset calls the reporting collaborator, raises only when that collaborator
\* raises and returns otherwise, and leaves emergency_type, protocol,
\* current_step_index and done as they were.
C15_ReportHasNoPrecondition ==
    (last.op = "generate_emt_report" /\ last.pre.protocol = None) =>
        /\ Len(last.calls) = 1
        /\ last.calls[1].runner = "emt_runner"
        /\ last.error = IF last.calls[1].reply.raised THEN "CollaboratorError" ELSE ""
        /\ FieldsUnchanged

\* C15 witness: a report returned on a context that a failed triage left
\* without a protocol
C15_Witness ==
    /\ Returned("generate_emt_report")
    /\ last.pre.protocol = None
    /\ last.pre.emergency_type = JStr(UNKNOWN_TYPE)
    /\ last.ret = REPORT

\* C16: a generate_emt_report call on a context with an empty event log
\* does not raise when the reporting collaborator answers: the collaborator
\* is given the serialization of the empty log, the call returns the text
\* that comes back, empty or not, and the log then holds that text as its
\* one emt_report event.
C16_ReportOnEmptyLog ==
    (last.op = "generate_emt_report" /\ Len(last.pre.events) = 0) =>
        /\ Len(last.calls) = 1
        /\ last.calls[1].runner = "emt_runner"
        /\ last.calls[1].content_text.t = "json_text"
        /\ Len(last.calls[1].content_text.obj) = 0
        /\ ~last.calls[1].reply.raised =>
              /\ last.error = ""
              /\ last.ret = Said(last.calls[1].reply)
              /\ Kinds(Cur.events) = << "emt_report" >>
              /\ Cur.events[1].content = last.ret

\* C16 witness: on a context that was never triaged the collaborator
\* answered without content, and the empty text was returned and logged
C16_Witness ==
    /\ Returned("generate_emt_report")
    /\ Len(last.pre.events) = 0
    /\ last.pre.emergency_type = None
    /\ last.ret = ""
    /\ Cur.events = << Event("emt_report", "") >>

\* the log the reporting collaborator was given by the last call
ReportedLog == last.calls[1].content_text.obj

\* C17: every generate_emt_report call gives the reporting collaborator the
\* whole event log as it was before the call, in its order; when it returns
\* it returns the collaborator's text unchanged, the log is the previous log
\* followed by one emt_report event holding that text, and emergency_type,
\* protocol, current_step_index and done are unchanged.  (A second call
\* therefore hands over the first call's emt_report event.)
C17_ReportWholeLog ==
    last.op = "generate_emt_report" =>
        /\ Len(last.calls) = 1
        /\ last.calls[1].runner = "emt_runner"
        /\ last.calls[1].content_text.t = "json_text"
        /\ Len(ReportedLog) = Len(last.pre.events)
        /\ IsPrefix(last.pre.events, ReportedLog)
        /\ FieldsUnchanged
        /\ last.error = "" =>
              /\ last.ret = Said(last.calls[1].reply)
              /\ Len(Cur.events) = Len(last.pre.events) + 1
              /\ IsPrefix(last.pre.events, Cur.events)
              /\ SameEvent(Cur.events[Len(Cur.events)], Event("emt_report", last.ret))

\* C17 witness: a second report on a triaged context; the collaborator was
\* given five events, the last of them the first report
C17_Witness ==
    /\ Returned("generate_emt_report")
    /\ Len(ReportedLog) = 5
    /\ ReportedLog[4].type = "protocol_lookup"
    /\ SameEvent(ReportedLog[5], Event("emt_report", REPORT))
    /\ Kinds(Cur.events)[6] = "emt_report"

\* C18: the step transition does not depend on the instructor's output nor
\* on the user's update: whenever a next_instruction call has returned, the
\* same call made on the same context (same protocol, same index) with any
\* other user update and any other instructor output ends with the same
\* current_step_index, the same done and the same instruction_message.
C18_TransitionIgnoresInstructor ==
    Returned("next_instruction") =>
        \A user_update \in UserUpdates, instruction_reply \in InstructorOutputs :
            LET other == next_instruction(last.pre, user_update, instruction_reply,
                                          CalmingReply)
            IN /\ other.error = ""
               /\ other.ctx.current_step_index = Cur.current_step_index
               /\ other.ctx.done = Cur.done
               /\ other.ret.done = last.ret.done
               /\ other.ret.instruction_message = last.ret.instruction_message

\* C18 witness: the instructor asked for step index 0 and done, and the call
\* moved from index 1 to index 2 of four steps, not done, and returned
\* the third step
C18_Witness ==
    /\ Returned("next_instruction")
    /\ Said(last.calls[1].reply) = INSTRUCTOR_JSON
    /\ last.pre.current_step_index = 1
    /\ Cur.current_step_index = 2
    /\ ~Cur.done
    /\ last.ret.instruction_message = Cur.protocol.steps[3]

\* the five emergency types of the protocol catalog
FiveKeys ==
    {"cardiac_arrest", "choking", "possible_stroke", "anaphylaxis",
     "unconscious_but_breathing"}
\* resp is what the lookup owes for the argument t
LookupAnswers(t, resp) ==
    IF t.t = "str" /\ t.v \in FiveKeys
    THEN /\ resp.status = "success"
         /\ DOMAIN resp = {"status", "data"}
         /\ resp.data.title # ""
         /\ Len(resp.data.steps) > 0
         /\ \A i \in 1..Len(resp.data.steps) : resp.data.steps[i] # ""
         /\ resp.data.stop_condition # ""
    ELSE /\ resp.status = "error"
         /\ DOMAIN resp = {"status", "error_message"}
         /\ resp.error_message = "Unknown emergency_type: " \o PyStr(t) \o "."

\* C19: get_protocol(t) returns status "success" with a protocol record
\* (title, non-empty steps, stop condition) exactly when t is one of the five
\* keys cardiac_arrest, choking, possible_stroke, anaphylaxis,
\* unconscious_but_breathing; for every other t it returns status "error"
\* with an error message carrying t and no protocol data.  The same holds
\* of the lookup a triage call makes and logs.
C19_LookupTotalOnKeys ==
    /\ last.op = "get_protocol" => LookupAnswers(last.arg, last.ret)
    /\ (last.op = "triage" /\ Len(Appended) = 4) =>
          LookupAnswers(Cur.emergency_type, Appended[4].content)

\* C19 witness: the lookup of a wrongly-cased key failed, naming it
C19_Witness ==
    /\ last.op = "get_protocol"
    /\ last.arg = JStr("Cardiac_Arrest")
    /\ last.ret.status = "error"
    /\ last.ret.error_message = "Unknown emergency_type: Cardiac_Arrest."

\* the last call was a triage whose protocol lookup had status "success"
LookupSucceeded ==
    /\ last.op = "triage"
    /\ Len(Appended) = 4
    /\ Appended[4].type = "protocol_lookup"
    /\ Appended[4].content.status = "success"

\* C20: a triage call whose lookup succeeds, on a context in any state
\* (fresh, in progress or done), returns and leaves ctx.protocol equal to
\* the catalog record of ctx.emergency_type, current_step_index 0 and done
\* false; and a triage call on a context without a protocol leaves it with
\* a protocol exactly when its lookup succeeded.
C20_SuccessfulTriageInstalls ==
    /\ LookupSucceeded =>
          /\ last.error = ""
          /\ InCatalog(Cur.emergency_type)
          /\ Cur.protocol = PROTOCOLS[Cur.emergency_type.v]
          /\ Cur.protocol = Appended[4].content.data
          /\ Cur.current_step_index = 0
          /\ ~Cur.done
    /\ (last.op = "triage" /\ last.pre.protocol = None) =>
          ((Cur.protocol # None) <=> LookupSucceeded)

\* C20 witness: a choking session that was done at index 3 is triaged again
\* as cardiac_arrest and starts over
C20_Witness ==
    /\ LookupSucceeded
    /\ last.pre.emergency_type = JStr("choking")
    /\ last.pre.current_step_index = 3
    /\ last.pre.done
    /\ Cur.emergency_type = JStr("cardiac_arrest")
    /\ Cur.protocol = PROTOCOLS["cardiac_arrest"]
    /\ Cur.current_step_index = 0
    /\ ~Cur.done

\* two contexts hold the same values
SameContext(a, b) ==
    /\ a.session_id = b.session_id
    /\ a.emergency_type = b.emergency_type
    /\ a.protocol = b.protocol
    /\ a.current_step_index = b.current_step_index
    /\ a.done = b.done
    /\ Len(a.events) = Len(b.events)
    /\ IsPrefix(a.events, b.events)

\* C21: with two contexts started on one orchestrator and their calls
\* interleaved in any order, a call on one context (start_session, triage,
\* next_instruction, generate_emt_report) leaves every field of the other
\* context as it was, and each context is at every moment the context its own
\* calls produce when they are run alone.
C21_ContextsIsolated ==
    /\ last.op \in Operations \cup {"start_session"} =>
          \A o \in Contexts \ {last.session_id} : SameContext(ctxs[o], last.others[o])
    /\ \A s \in Contexts : SameContext(ctxs[s], hist[s].alone)

\* C21 witness: a next_instruction call on the cardiac_arrest context of s2
\* while the choking context of s1 had already been triaged and advanced
C21_Witness ==
    /\ Returned("next_instruction")
    /\ last.session_id = "s2"
    /\ Cur.emergency_type = JStr("cardiac_arrest")
    /\ Cur.current_step_index = 1
    /\ Len(Cur.events) = 7
    /\ ctxs["s1"].emergency_type = JStr("choking")
    /\ ctxs["s1"].current_step_index = 1
    /\ Len(ctxs["s1"].events) = 7
    /\ SameContext(ctxs["s1"], last.others["s1"])

\* the triage collaborator answered the last call with a JSON object naming
\* a configured emergency type
NamedConfiguredType ==
    /\ last.op = "triage"
    /\ ~last.calls[1].reply.raised
    /\ \E i \in 1..Len(EMERGENCY_TYPES) :
          Said(last.calls[1].reply) \in
              {JsonType(EMERGENCY_TYPES[i]), TriageJson(EMERGENCY_TYPES[i])}

\* C22: every value of EMERGENCY_TYPES is a key of the protocol catalog, so
\* a triage call whose collaborator answers with a JSON object naming a type
\* of EMERGENCY_TYPES returns, with that type and its protocol stored; a
\* triage call fails on the lookup (RuntimeError) only when the collaborator
\* named a type outside EMERGENCY_TYPES.
C22_ConfiguredTypesLookedUp ==
    /\ \A i \in 1..Len(EMERGENCY_TYPES) : EMERGENCY_TYPES[i] \in CatalogKeys
    /\ NamedConfiguredType =>
          /\ last.error = ""
          /\ Said(last.calls[1].reply) \in
                {JsonType(Cur.emergency_type.v), TriageJson(Cur.emergency_type.v)}
          /\ Cur.protocol = Appended[4].content.data
    /\ (last.op = "triage" /\ last.error = "RuntimeError") =>
          /\ ~NamedConfiguredType
          /\ Appended[3].content.t = "dict"
          /\ Cur.emergency_type = DictGet(Appended[3].content, "emergency_type")
          /\ \A i \in 1..Len(EMERGENCY_TYPES) : Cur.emergency_type # JStr(EMERGENCY_TYPES[i])

\* C22 witness: the collaborator named possible_stroke and the stroke
\* protocol was stored
C22_Witness ==
    /\ NamedConfiguredType
    /\ last.error = ""
    /\ Cur.emergency_type = JStr("possible_stroke")
    /\ Cur.protocol.title = PROTOCOLS["possible_stroke"].title

\* C23: a next_instruction call that returns hands back the step at the
\* index it has moved to, so the first call after a successful triage hands
\* back steps[1] (the second step), and no next_instruction call ever hands
\* back the first step of the protocol, steps[0].
C23_FirstStepNeverReturned ==
    Returned("next_instruction") =>
        LET steps == Cur.protocol.steps IN
        /\ last.ret.instruction_message = steps[Cur.current_step_index + 1]
        /\ last.ret.instruction_message # steps[1]
        /\ last.pre.current_step_index = 0 => last.ret.instruction_message = steps[2]

\* C23 witness: the first call after the cardiac_arrest triage returned the
\* second step, "2. Place the person on a firm, flat surface."
C23_Witness ==
    /\ Returned("next_instruction")
    /\ hist[last.session_id].nexts = 1
    /\ Kinds(last.pre.events)[Len(last.pre.events)] = "protocol_lookup"
    /\ Cur.emergency_type = JStr("cardiac_arrest")
    /\ last.ret.instruction_message = PROTOCOLS["cardiac_arrest"].steps[2]
    /\ Cur.current_step_index = 1

TriageKinds ==
    << "user_message", "triage_output_raw", "triage_output_parsed", "protocol_lookup" >>
InstructionKinds == << "user_update", "instruction_output_raw", "calming_output_raw" >>
\* the last call was a triage whose call of get_protocol gave a response
LookupAnswered == last.op = "triage" /\ last.error \in {"", "RuntimeError"}
\* the last call was a triage that called get_protocol
LookupReached == last.op = "triage" /\ last.error \in {"", "RuntimeError", "TypeError"}

\* C24 (four events per triage): a triage call whose lookup gave a response
\* has appended user_message, triage_output_raw, triage_output_parsed and
\* protocol_lookup, the last with status "error" when the call then raised.
C24_TriageAppendsFour ==
    LookupAnswered =>
        /\ Kinds(Appended) = TriageKinds
        /\ (last.error = "RuntimeError") <=> (Appended[4].content.status = "error")

\* C24 (three events per next_instruction): a next_instruction call that
\* returns has appended user_update, instruction_output_raw and
\* calming_output_raw, whether or not done was already true.
C24_InstructionAppendsThree ==
    Returned("next_instruction") => Kinds(Appended) = InstructionKinds

\* C24: every triage call that reaches the protocol lookup appends exactly
\* the four events user_message, triage_output_raw, triage_output_parsed,
\* protocol_lookup; every next_instruction call that returns appends exactly
\* three; every generate_emt_report call appends exactly one; and the length
\* of the log is always 4*T + 3*N + R for T such triage calls, N returned
\* next_instruction calls and R generate_emt_report calls.
C24_EventAccounting ==
    /\ LookupReached => Kinds(Appended) = TriageKinds
    /\ C24_InstructionAppendsThree
    /\ last.op = "generate_emt_report" => Kinds(Appended) = << "emt_report" >>
    /\ \A s \in Contexts :
          Len(ctxs[s].events) =
              4 * hist[s].lookups + 3 * hist[s].instructions + hist[s].reports

\* C25: the instruction_output_raw and calming_output_raw events of a
\* next_instruction call hold the collaborators' outputs as they came: when
\* the calming output is empty or whitespace only the event holds that empty
\* or blank text and not the fallback sentence handed to the caller, so the
\* returned calming_message differs from the logged content exactly when
\* the fallback is substituted.
C25_RawOutputsLogged ==
    /\ (last.op = "next_instruction" /\ Len(Appended) >= 2) =>
          /\ Appended[2].type = "instruction_output_raw"
          /\ Appended[2].content = Said(last.calls[1].reply)
    /\ Returned("next_instruction") =>
          LET logged == Appended[3].content IN
          /\ Appended[3].type = "calming_output_raw"
          /\ logged = Said(CalmingReply)
          /\ logged # FALLBACK_CALMING
          /\ (last.ret.calming_message # logged) <=> IsBlank(logged)
          /\ (last.ret.calming_message # logged) <=>
                (last.ret.calming_message = FALLBACK_CALMING)

\* C25 witness: the calming collaborator's final response had no content;
\* the log holds the empty text and the caller holds the fallback sentence
C25_Witness ==
    /\ Returned("next_instruction")
    /\ CalmingReply = SaysNothing
    /\ Appended[3] = Event("calming_output_raw", "")
    /\ Appended[2] = Event("instruction_output_raw", INSTRUCTOR_JSON)
    /\ last.ret.calming_message = FALLBACK_CALMING

====
